---- MODULE Spec2Model ----
(***************************************************************************)
(* State-machine model of the accounts and chatbot back end:               *)
(*   - CustomUser rows, role profiles and the signal handlers that         *)
(*     provision them (accounts/signals/user_creation_signals.py);         *)
(*   - subscription tier changes (CustomUser.update_subscription, the      *)
(*     API action and the admin actions);                                  *)
(*   - registration, login, logout, token refresh, password reset;         *)
(*   - chat session service operations.                                    *)
(* Database rows are the state; a Python model instance held by a caller   *)
(* is modelled with the related-object cache Django keeps on it.           *)
(***************************************************************************)
EXTENDS Integers, Sequences, FiniteSets, TLC

\* ------------------------------------------------------------------ bounds
MaxUsers == 2
MaxProfilePk == 3
MaxTokens == 2
MaxStamp == 3
MaxSessions == 2
MaxDocs == 1
MaxChunks == 2
MaxVecId == 4
MaxKeys == 2
MaxRand == 3
MaxUsage == 2
MaxCostTokens == 3

\* --------------------------------------------------------------- constants
Roles == {"developer", "senior_developer", "project_manager", "client",
          "account_manager", "admin"}

Tiers == {"standard", "professional", "business", "enterprise"}

RoleStatuses == {"pending", "approved", "suspended", "inactive", "blocked"}

\* The order in which handle_role_change cleans up the reverse relations.
ProfileOrder == <<"developer_profile", "client_profile",
                  "project_manager_profile", "account_manager_profile">>

ProfileKinds == {ProfileOrder[n] : n \in 1..Len(ProfileOrder)}

UserIds == 1..MaxUsers

\* Email addresses accounts are created with, and one that is never used.
Addrs == {"a@x", "b@x"}

UnusedAddr == "c@x"

\* An email as a request carries it: the address, possibly with surrounding
\* whitespace.
RawEmails == [pad : BOOLEAN, addr : Addrs]

NoEmail == [pad |-> FALSE, addr |-> ""]

\* Requests handled concurrently by the registration views.
Procs == {"p1", "p2"}

VARIABLES
  users,       \* CustomUser table: pk -> row
  profiles,    \* the four role profile tables: rows [pk, user, kind, perm, status]
  nextPk,      \* next primary key handed out to a profile row
  inst,        \* Python CustomUser instances kept by a caller: pk -> [row, cache]
  last,        \* the operation that produced the current state
  reg,         \* registration requests in flight: process -> request state
  tokens,      \* refresh tokens handed to clients: set of [jti, user]
  outstanding, \* OutstandingToken table: set of [jti, user]
  blacklisted, \* BlacklistedToken table: set of jti (one-to-one to outstanding)
  nextJti,     \* next token identifier
  revoked,     \* history: jti of tokens a successful logout had to invalidate
  resp,        \* the last HTTP response of the login/logout/reset views
  sessions,    \* ChatSession table: id -> row
  lastCall,    \* the outcome of the last chat session service call
  checkpoints, \* LangGraph checkpoint tables: thread ids that hold state
  docs,        \* UserDocument table: id -> row
  files,       \* documents whose uploaded file is present in storage
  store,       \* pgvector store: set of entries [id, doc]
  nextVec,     \* next vector id the store hands out
  job,         \* the process_document call in progress
  docCall,     \* the outcome of the last document service call
  keys,        \* UserAPIKey table: id -> row (a deleted row is kept, not live)
  kreq,        \* API key service calls in flight: process -> call state
  configured,  \* whether settings define API_KEY_ENCRYPTION_KEY
  nextRand,    \* next key Fernet.generate_key() returns
  lastDecrypt, \* the outcome of the last get_decrypted_key call
  phoneCheck,  \* the last phone number validated and the verdict
  usage,       \* TokenUsage table: id -> row
  treq,        \* track_usage calls in flight: process -> call state
  costs        \* the last cost calculation: arguments and both results

vars == <<users, profiles, nextPk, inst, last, reg, tokens, outstanding,
          blacklisted, nextJti, revoked, resp, sessions, lastCall,
          checkpoints, docs, files, store, nextVec, job, docCall,
          keys, kreq, configured, nextRand, lastDecrypt, phoneCheck, usage,
          treq, costs>>

regVars == <<reg>>

tokenVars == <<tokens, outstanding, blacklisted, nextJti, revoked>>

chatVars == <<sessions, lastCall>>

ckptVars == <<checkpoints>>

\* State of the chatbot services other than the session table.
docVars == <<docs, files, store, nextVec, job, docCall>>

keyVars == <<keys, kreq, configured, nextRand, lastDecrypt>>

useVars == <<phoneCheck, usage, treq, costs>>

svcVars == <<ckptVars, docVars, keyVars, useVars>>

\* ------------------------------------------------- database and instances
DB == [users |-> users, profiles |-> profiles, nextPk |-> nextPk]

\* Profile type the signal handlers provision for a role ("none" for admin).
ProfileKindOf(role) ==
  CASE role \in {"developer", "senior_developer"} -> "developer_profile"
    [] role = "client" -> "client_profile"
    [] role = "project_manager" -> "project_manager_profile"
    [] role = "account_manager" -> "account_manager_profile"
    [] OTHER -> "none"

\* Values of the related-object cache of an instance, per reverse relation.
Miss == [st |-> "miss", pk |-> 0]            \* never accessed
CachedNone == [st |-> "none", pk |-> 0]      \* looked up, no row
Obj(pk) == [st |-> "obj", pk |-> pk]         \* a profile object; pk 0 is pk None

EmptyCache == [k \in ProfileKinds |-> Miss]

\* Tier-derived fields of a profile that no subscription update has written.
NoPerm == [unset |-> "unset"]

NewRow(email, role, tier) ==
  [email |-> email, role |-> role, role_status |-> "pending",
   subscription_tier |-> tier, is_active |-> TRUE, password |-> "pw",
   login_count |-> 0, last_active |-> 0]

\* An instance fetched from the database: column values, nothing cached.
Load(db, pk) == [pk |-> pk, row |-> db.users[pk], cache |-> EmptyCache]

RowsOf(db, pk, kind) == {p \in db.profiles : p.user = pk /\ p.kind = kind}

\* hasattr(instance, "<kind>"): the reverse one-to-one accessor. A cache miss
\* queries the table and caches the answer (the row or None).
Lookup(db, i, kind) ==
  IF i.cache[kind].st = "miss"
  THEN IF RowsOf(db, i.pk, kind) = {} THEN CachedNone
       ELSE Obj((CHOOSE p \in RowsOf(db, i.pk, kind) : TRUE).pk)
  ELSE i.cache[kind]

\* <Profile>.objects.create(user=instance): the new object is cached on the
\* instance before the INSERT; the one-to-one constraint refuses a second row.
CreateProfile(db, i, kind) ==
  IF RowsOf(db, i.pk, kind) # {}
  THEN [db |-> db, i |-> [i EXCEPT !.cache[kind] = Obj(0)], ok |-> FALSE]
  ELSE [db |-> [db EXCEPT
                  !.profiles = @ \cup {[pk |-> db.nextPk, user |-> i.pk,
                                        kind |-> kind, perm |-> NoPerm,
                                        status |-> "active"]},
                  !.nextPk = @ + 1],
        i |-> [i EXCEPT !.cache[kind] = Obj(db.nextPk)],
        ok |-> TRUE]

\* The clean-up block of handle_role_change: each cached or fetched profile is
\* deleted in turn; delete() leaves the object cached with pk None, and
\* delete() of an object whose pk is None raises, which the handler logs and
\* which ends the clean-up.
RECURSIVE CleanupFrom(_, _, _)
CleanupFrom(db, i, n) ==
  IF n > Len(ProfileOrder) THEN [db |-> db, i |-> i]
  ELSE LET kind == ProfileOrder[n]
           c == Lookup(db, i, kind)
           i1 == [i EXCEPT !.cache[kind] = c]
       IN IF c.st # "obj" THEN CleanupFrom(db, i1, n + 1)
          ELSE IF c.pk = 0 THEN [db |-> db, i |-> i1]
          ELSE CleanupFrom(
                 [db EXCEPT !.profiles = {p \in @ : p.pk # c.pk}],
                 [i1 EXCEPT !.cache[kind] = Obj(0)], n + 1)

\* pre_save receiver of CustomUser.
handle_role_change(db, i) ==
  IF i.pk = 0 \/ i.pk \notin DOMAIN db.users THEN [db |-> db, i |-> i]
  ELSE IF db.users[i.pk].role = i.row.role THEN [db |-> db, i |-> i]
  ELSE
    LET c == CleanupFrom(db, i, 1)
        db1 == [c.db EXCEPT !.users[i.pk].role = i.row.role]
        kind == ProfileKindOf(i.row.role)
    IN IF kind = "none"
       THEN [db |-> [db1 EXCEPT !.users[i.pk].role_status = "approved"],
             i |-> c.i]
       ELSE LET cr == CreateProfile(db1, c.i, kind)
            IN IF cr.ok
               THEN [db |-> [cr.db EXCEPT
                               !.users[i.pk].role_status = "approved"],
                     i |-> cr.i]
               ELSE [db |-> db, i |-> cr.i]   \* atomic block rolled back

\* post_save receiver of CustomUser, created = True.
create_user_profile(db, i) ==
  LET kind == ProfileKindOf(i.row.role)
  IN IF kind = "none"
     THEN [db |-> [db EXCEPT !.users[i.pk].role_status = "approved"], i |-> i]
     ELSE LET c == Lookup(db, i, kind)
              i1 == [i EXCEPT !.cache[kind] = c]
          IN IF c.st = "obj"
             THEN [db |-> [db EXCEPT !.users[i.pk].role_status = "approved"],
                   i |-> i1]
             ELSE LET cr == CreateProfile(db, i1, kind)
                  IN IF cr.ok
                     THEN [db |-> [cr.db EXCEPT
                                     !.users[i.pk].role_status = "approved"],
                           i |-> cr.i]
                     ELSE [db |-> db, i |-> cr.i]

\* instance.save() of an instance that has a row: pre_save, then UPDATE of
\* every column from the instance.
SaveExisting(db, i) ==
  LET h == handle_role_change(db, i)
  IN [db |-> [h.db EXCEPT !.users[i.pk] = i.row], i |-> h.i]

\* An email column without the unique constraint.
NoUniqueConstraint(db, email) == FALSE

\* The unique constraint on CustomUser.email: an INSERT of a second row with
\* the same email raises IntegrityError.

UniqueEmailViolated(db, email) ==
  \E u \in DOMAIN db.users : db.users[u].email = email

\* instance.save() of a new instance: INSERT, then post_save.
SaveNew(db, row) ==
  LET pk == Cardinality(DOMAIN db.users) + 1
      i == [pk |-> pk, row |-> row, cache |-> EmptyCache]
  IN IF UniqueEmailViolated(db, row.email)
     THEN [db |-> db, i |-> [i EXCEPT !.pk = 0], ok |-> FALSE]
     ELSE LET r == create_user_profile([db EXCEPT !.users = @ @@ (pk :> row)], i)
          IN [db |-> r.db, i |-> r.i, ok |-> TRUE]


\* ------------------------------------------------- subscription tiers
\* tier_limits of _update_developer_permissions.
tier_limits ==
  [standard |-> [resource_limit |-> "50", advanced_tools_access |-> "False"],
   professional |-> [resource_limit |-> "200", advanced_tools_access |-> "True"],
   business |-> [resource_limit |-> "500", advanced_tools_access |-> "True"],
   enterprise |-> [resource_limit |-> "None", advanced_tools_access |-> "True"]]

\* tier_access of _update_client_permissions.
tier_access ==
  [standard |-> [project_reports_access |-> "False", api_tokens |-> "3",
                 custom_integrations |-> "False", support_level |-> "basic"],
   professional |-> [project_reports_access |-> "True", api_tokens |-> "10",
                     custom_integrations |-> "False", support_level |-> "standard"],
   business |-> [project_reports_access |-> "True", api_tokens |-> "25",
                 custom_integrations |-> "True", support_level |-> "priority"],
   enterprise |-> [project_reports_access |-> "True", api_tokens |-> "None",
                   custom_integrations |-> "True", support_level |-> "dedicated"]]

\* tier_quotas of _update_project_manager_permissions (no entry for standard).
tier_quotas ==
  [professional |-> [max_projects |-> "5", team_members |-> "10",
                     analytics_level |-> "basic"],
   business |-> [max_projects |-> "15", team_members |-> "25",
                 analytics_level |-> "advanced"],
   enterprise |-> [max_projects |-> "None", team_members |-> "None",
                   analytics_level |-> "premium"]]

\* What each _update_*_permissions writes into its profile for a tier.
DeveloperPerm(tier) ==
  [monthly_limit |-> tier_limits[tier].resource_limit,
   advanced_tools_access |-> tier_limits[tier].advanced_tools_access]

ClientPerm(tier) == [subscription_features |-> tier_access[tier]]

ProjectManagerPerm(tier) == [limits |-> tier_quotas[tier]]

\* The profile update_subscription cascades to, by role ("none": no cascade).
CascadeKindOf(role) ==
  CASE role = "developer" -> "developer_profile"
    [] role = "client" -> "client_profile"
    [] role = "project_manager" -> "project_manager_profile"
    [] OTHER -> "none"

\* profile.save(update_fields=[...]) of the cached profile object c: an UPDATE
\* by primary key, refused when the object has no pk or the row is gone.
ProfileRowSaved(db, c) == c.pk # 0 /\ \E p \in db.profiles : p.pk = c.pk

WritePerm(db, c, perm) ==
  [db EXCEPT !.profiles =
     {IF p.pk = c.pk THEN [p EXCEPT !.perm = perm] ELSE p : p \in @}]

\* CustomUser.update_subscription(new_tier) on instance i.
update_subscription(db, i, new_tier) ==
  IF new_tier \notin Tiers THEN [db |-> db, i |-> i, raised |-> "ValueError"]
  ELSE
    LET i1 == [i EXCEPT !.row.subscription_tier = new_tier]
        kind == CascadeKindOf(i.row.role)
        c == IF kind = "none" THEN Miss ELSE Lookup(db, i1, kind)
        i2 == IF kind = "none" THEN i1 ELSE [i1 EXCEPT !.cache[kind] = c]
        writes == /\ kind # "none"
                  /\ c.st = "obj"
                  /\ (kind = "project_manager_profile"
                        => new_tier \in DOMAIN tier_quotas)
        perm == CASE kind = "developer_profile" -> DeveloperPerm(new_tier)
                  [] kind = "client_profile" -> ClientPerm(new_tier)
                  [] OTHER -> ProjectManagerPerm(new_tier)
    IN IF ~writes
       THEN LET s == SaveExisting(db, i2)
            IN [db |-> s.db, i |-> s.i, raised |-> "no"]
       ELSE IF ~ProfileRowSaved(db, c)
       THEN [db |-> db, i |-> i2,
             raised |-> IF c.pk = 0 THEN "ValueError" ELSE "DatabaseError"]
       ELSE LET s == SaveExisting(WritePerm(db, c, perm), i2)
            IN [db |-> s.db, i |-> s.i, raised |-> "no"]

\* CustomUserAdmin.upgrade_to_*: queryset.update(subscription_tier=tier).
AdminTierUpdate(db, S, tier) ==
  [db EXCEPT !.users =
     [u \in DOMAIN @ |->
        IF u \in S THEN [@[u] EXCEPT !.subscription_tier = tier] ELSE @[u]]]

\* --------------------------------------------------------------- actions
Commit(db) ==
  /\ users' = db.users
  /\ profiles' = db.profiles
  /\ nextPk' = db.nextPk

\* A user is created with a role; the caller may keep the instance.
CreateUser(email, role, keep) ==
  /\ Cardinality(DOMAIN users) < MaxUsers
  /\ nextPk <= MaxProfilePk
  /\ LET r == SaveNew(DB, NewRow(email, role, "standard"))
     IN /\ Commit(r.db)
        /\ inst' = IF keep /\ r.ok THEN inst @@ (r.i.pk :> r.i) ELSE inst
        /\ last' = [op |-> "create_user",
                    users |-> IF r.ok THEN {r.i.pk} ELSE {}, ok |-> r.ok,
                    role |-> role]
  /\ UNCHANGED <<regVars, tokenVars, resp, chatVars, svcVars>>

\* A freshly fetched instance gets a new role and is saved.
ChangeRoleFresh(u, role) ==
  /\ u \in DOMAIN users
  /\ users[u].role # role
  /\ nextPk <= MaxProfilePk
  /\ LET i == Load(DB, u)
         r == SaveExisting(DB, [i EXCEPT !.row.role = role])
     IN /\ Commit(r.db)
        /\ UNCHANGED inst
        /\ last' = [op |-> "change_role", users |-> {u}, ok |-> TRUE,
                    role |-> role]
  /\ UNCHANGED <<regVars, tokenVars, resp, chatVars, svcVars>>

\* The instance a caller kept gets a new role and is saved.
ChangeRoleHeld(u, role) ==
  /\ u \in DOMAIN inst
  /\ users[u].role # role
  /\ nextPk <= MaxProfilePk
  /\ LET r == SaveExisting(DB, [inst[u] EXCEPT !.row.role = role])
     IN /\ Commit(r.db)
        /\ inst' = [inst EXCEPT ![u] = r.i]
        /\ last' = [op |-> "change_role", users |-> {u}, ok |-> TRUE,
                    role |-> role]
  /\ UNCHANGED <<regVars, tokenVars, resp, chatVars, svcVars>>

\* CustomUserViewSet.update_subscription: the API action on a fetched user.
UpdateSubscriptionAPI(u, new_tier) ==
  /\ u \in DOMAIN users
  /\ nextPk <= MaxProfilePk
  /\ IF new_tier = ""
     THEN /\ UNCHANGED <<users, profiles, nextPk, inst>>
          /\ last' = [op |-> "update_subscription", users |-> {u}, ok |-> FALSE]
     ELSE LET r == update_subscription(DB, Load(DB, u), new_tier)
          IN /\ Commit(r.db)
             /\ UNCHANGED inst
             /\ last' = [op |-> "update_subscription", users |-> {u},
                         ok |-> r.raised = "no"]
  /\ UNCHANGED <<regVars, tokenVars, resp, chatVars, svcVars>>

\* The admin actions upgrade_to_professional / _business / _enterprise.
AdminUpgrade(S, tier) ==
  /\ S # {}
  /\ S \subseteq DOMAIN users
  /\ Commit(AdminTierUpdate(DB, S, tier))
  /\ UNCHANGED inst
  /\ last' = [op |-> "admin_upgrade", users |-> S, ok |-> TRUE]
  /\ UNCHANGED <<regVars, tokenVars, resp, chatVars, svcVars>>

\* ------------------------------------------------------------ registration
\* CharField/EmailField.to_internal_value: surrounding whitespace is stripped.
Strip(raw) == raw.addr

\* User.objects.filter(email=value) with the value as given: an exact match.
UsersByEmail(db, raw) ==
  {u \in DOMAIN db.users : ~raw.pad /\ db.users[u].email = raw.addr}

\* Whether the email of a request, once stripped, belongs to a stored user.
EmailRegistered(db, raw) ==
  UsersByEmail(db, [pad |-> FALSE, addr |-> Strip(raw)]) # {}

\* valid_roles of _validate_registration_data and RegisterSerializer.validate.
valid_roles == Roles

\* A registration view without the public-registration rule.
DirectRegistrationOpen(role, invitation) == FALSE

\* The public-registration rule of _validate_registration_data: without an
\* invitation token only the client role may register.

direct_registration_restricted(role, invitation) ==
  ~invitation /\ role # "client"

\* RegisterView._validate_registration_data: "" when the data is valid,
\* otherwise the error code of the 400 response.
validate_registration_data(db, raw, role, invitation) ==
  IF role = "" THEN "missing_required_fields"
  ELSE IF role \notin valid_roles THEN "invalid_role"
  ELSE IF direct_registration_restricted(role, invitation)
    THEN "direct_registration_restricted"
  ELSE IF UsersByEmail(db, raw) # {} THEN "email_already_exists"
  ELSE ""

\* RegisterSerializer.is_valid(): field conversion, then validate().
RegisterSerializerIsValid(db, raw, role) ==
  /\ UsersByEmail(db, [pad |-> FALSE, addr |-> Strip(raw)]) = {}
  /\ role \in valid_roles

IdleRequest ==
  [pc |-> "idle", view |-> "", email |-> NoEmail, role |-> "",
   invitation |-> FALSE, dup |-> FALSE, status |-> 0, code |-> "",
   created |-> 0]

\* The response of a registration view, with the pk of the user it stored.
Respond(req, status, code, created) ==
  [req EXCEPT !.pc = "done", !.email = NoEmail, !.role = "",
              !.status = status, !.code = code, !.created = created]

\* RegisterView.post, first step: _validate_registration_data.
RegisterValidate(p, raw, role, invitation) ==
  /\ reg[p].pc \in {"idle", "done"}
  /\ LET code == validate_registration_data(DB, raw, role, invitation)
         req == [IdleRequest EXCEPT
                   !.view = "register", !.email = raw, !.role = role,
                   !.invitation = invitation,
                   !.dup = EmailRegistered(DB, raw)]
     IN reg' = [reg EXCEPT ![p] =
                  IF code # "" THEN Respond(req, 400, code, 0)
                  ELSE [req EXCEPT !.pc = "validated"]]
  /\ UNCHANGED <<users, profiles, nextPk, inst, last, tokenVars, resp, chatVars, svcVars>>

\* RegisterView.post, second step: serializer.is_valid().
RegisterIsValid(p) ==
  /\ reg[p].pc = "validated"
  /\ reg' = [reg EXCEPT ![p] =
               IF RegisterSerializerIsValid(DB, reg[p].email, reg[p].role)
               THEN [@ EXCEPT !.pc = "checked"]
               ELSE Respond(@, 400, "validation_error", 0)]
  /\ UNCHANGED <<users, profiles, nextPk, inst, last, tokenVars, resp, chatVars, svcVars>>

\* RegisterView.post, last step: serializer.save() (RegisterSerializer.create,
\* the INSERT and the post_save signal), RefreshToken.for_user, the response,
\* and the commit of the view's transaction.
RegisterSave(p) ==
  /\ reg[p].pc = "checked"
  /\ LET row == NewRow(Strip(reg[p].email), reg[p].role, "standard")
         r == SaveNew(DB, row)
     IN IF ~r.ok
        THEN /\ reg' = [reg EXCEPT ![p] = Respond(@, 500, "server_error", 0)]
             /\ UNCHANGED <<users, profiles, nextPk, tokenVars>>
        ELSE /\ Cardinality(DOMAIN users) < MaxUsers
             /\ nextPk <= MaxProfilePk
             /\ nextJti <= MaxTokens
             /\ Commit(r.db)
             /\ outstanding' = outstanding \cup {[jti |-> nextJti, user |-> r.i.pk]}
             /\ tokens' = tokens \cup {[jti |-> nextJti, user |-> r.i.pk]}
             /\ nextJti' = nextJti + 1
             /\ UNCHANGED <<blacklisted, revoked>>
             /\ reg' = [reg EXCEPT ![p] = Respond(@, 201, "", r.i.pk)]
  /\ UNCHANGED <<inst, last, resp, chatVars, svcVars>>

\* OrganizationRegisterView.post: get_object_or_404 is given the string
\* "customers.Organization", which raises; the handler answers 500.
OrganizationRegister(p, organization_id, raw) ==
  /\ reg[p].pc \in {"idle", "done"}
  /\ LET req == [IdleRequest EXCEPT
                   !.view = "organization_register",
                   !.dup = EmailRegistered(DB, raw)]
     IN reg' = [reg EXCEPT ![p] =
                  IF organization_id = 0
                  THEN Respond(req, 400, "organization_id_required", 0)
                  ELSE Respond(req, 500, "server_error", 0)]
  /\ UNCHANGED <<users, profiles, nextPk, inst, last, tokenVars, resp, chatVars, svcVars>>

\* ---------------------------------------------- login, logout, refresh, reset
\* role_status values the login pre-check refuses.
RestrictedStatuses == {"suspended", "inactive", "blocked"}

\* The three cookies _set_auth_cookies sets on a successful login.
auth_cookies == {"refresh_token", "access_token", "auth_state"}

\* A logout response that forgets the CSRF cookie.
cookies_to_clear_short == {"auth_state", "access_token", "refresh_token"}

\* cookies_to_clear of LogoutView._create_logout_response.

cookies_to_clear == {"auth_state", "access_token", "refresh_token", "csrftoken"}

NoResp ==
  [view |-> "none", status |-> 0, body |-> "", set |-> {}, deleted |-> {},
   tokens |-> {}, restricted |-> FALSE]

LoginEmails == RawEmails \cup {[pad |-> FALSE, addr |-> UnusedAddr]}

Passwords == {"pw", "bad", ""}

\* The account a stripped email names, as a set of pks (empty or a singleton).
AccountOf(db, raw) ==
  UsersByEmail(db, [pad |-> FALSE, addr |-> Strip(raw)])

\* hasattr(self.user, "<role>_profile") of CustomTokenObtainPairSerializer.
HasRoleProfile(db, u) ==
  LET kind == ProfileKindOf(db.users[u].role)
  IN kind = "none" \/ RowsOf(db, u, kind) # {}

LoginResult(status, body, user, minted) ==
  [status |-> status, body |-> body, user |-> user, minted |-> minted]

\* TokenObtainSerializer.validate: authenticate() with the stripped email and
\* the authentication rule (the user exists, the password matches, is_active).
Authenticated(db, raw, password) ==
  {u \in AccountOf(db, raw) :
     db.users[u].password = password /\ db.users[u].is_active}

\* CustomTokenObtainPairView.post as a function of the database and the
\* request: status, error code, the authenticated user and whether
\* RefreshToken.for_user stored an OutstandingToken row. docapi tells whether
\* the documentintelligence package can be imported.
login_post(db, raw, password, docapi) ==
  IF password = "" THEN LoginResult(400, "required_fields_missing", 0, FALSE)
  ELSE
    LET pre == UsersByEmail(db, raw)
        pu == CHOOSE u \in pre : TRUE
        auth == Authenticated(db, raw, password)
        au == CHOOSE u \in auth : TRUE
    IN IF pre # {} /\ ~db.users[pu].is_active
         THEN LoginResult(403, "account_inactive", 0, FALSE)
       ELSE IF pre # {} /\ db.users[pu].role_status \in RestrictedStatuses
         THEN LoginResult(403,
                CASE db.users[pu].role_status = "suspended" -> "account_suspended"
                  [] db.users[pu].role_status = "inactive" -> "account_inactive"
                  [] OTHER -> "account_blocked",
                0, FALSE)
       ELSE IF auth = {}
         THEN LoginResult(401, "invalid_credentials", 0, FALSE)
       ELSE IF ~HasRoleProfile(db, au)
         THEN LoginResult(400, "validation_error", au, TRUE)
       ELSE IF db.users[au].role = "client" /\ ~docapi
         THEN LoginResult(500, "server_error", au, TRUE)
       ELSE LoginResult(200, "login_successful", au, TRUE)

\* PasswordResetView.post as a function of the database and the request.
password_reset_post(db, raw) ==
  IF raw = NoEmail
  THEN [status |-> 400, body |-> "Email address is required"]
  ELSE IF UsersByEmail(db, raw) # {}
  THEN [status |-> 200,
        body |-> "Password reset instructions sent to your email"]
  ELSE [status |-> 200,
        body |-> "If an account exists with this email, reset instructions will be sent"]

NoToken == [jti |-> 0, user |-> 0]

GarbageToken == [jti |-> -1, user |-> 0]

\* RefreshToken(token): the token verifies unless it is malformed or its jti
\* has a BlacklistedToken row.
TokenVerifies(bl, presented) ==
  presented \notin {NoToken, GarbageToken} /\ presented.jti \notin bl

\* token.blacklist(): get_or_create of the OutstandingToken row and of its
\* BlacklistedToken row.
Blacklist(os, bl, tok) ==
  [outstanding |-> os \cup {tok}, blacklisted |-> bl \cup {tok.jti}]

\* OutstandingToken.objects.filter(user=user).delete(): the BlacklistedToken
\* rows of the deleted rows go with them (on_delete=CASCADE).
DeleteOutstandingOf(os, bl, user) ==
  LET keep == {o \in os : o.user # user}
  IN [outstanding |-> keep,
      blacklisted |-> {j \in bl : \E o \in keep : o.jti = j}]

\* An account row created through the ORM (fixtures, createsuperuser, shell).
CreateAccount(email, role) ==
  /\ Cardinality(DOMAIN users) < MaxUsers
  /\ nextPk <= MaxProfilePk
  /\ LET r == SaveNew(DB, NewRow(email, role, "standard"))
     IN /\ r.ok
        /\ Commit(r.db)
  /\ resp' = NoResp
  /\ UNCHANGED <<inst, last, regVars, tokenVars, chatVars, svcVars>>

\* The admin change form: the fetched user is saved with the posted
\* role_status.
AdminSetRoleStatus(u, st) ==
  /\ u \in DOMAIN users
  /\ users[u].role_status # st
  /\ LET i == Load(DB, u)
         r == SaveExisting(DB, [i EXCEPT !.row.role_status = st])
     IN Commit(r.db)
  /\ resp' = NoResp
  /\ UNCHANGED <<inst, last, regVars, tokenVars, chatVars, svcVars>>

\* The admin actions activate_users / deactivate_users.
AdminSetActive(S, active) ==
  /\ S # {}
  /\ S \subseteq DOMAIN users
  /\ \E u \in S : users[u].is_active # active
  /\ users' = [u \in DOMAIN users |->
                 IF u \in S THEN [users[u] EXCEPT !.is_active = active]
                 ELSE users[u]]
  /\ resp' = NoResp
  /\ UNCHANGED <<profiles, nextPk, inst, last, regVars, tokenVars, chatVars, svcVars>>

\* CustomTokenObtainPairView.post.
Login(raw, password, docapi) ==
  \E o \in {login_post(DB, raw, password, docapi)} :
  LET tok == [jti |-> nextJti, user |-> o.user]
      ok == o.status = 200
  IN /\ o.minted => nextJti <= MaxTokens
     /\ ok => users[o.user].last_active < MaxStamp
     /\ outstanding' = IF o.minted THEN outstanding \cup {tok} ELSE outstanding
     /\ nextJti' = IF o.minted THEN nextJti + 1 ELSE nextJti
     /\ tokens' = IF ok THEN tokens \cup {tok} ELSE tokens
     /\ users' = IF ok
                 THEN [users EXCEPT ![o.user].login_count = @ + 1,
                                    ![o.user].last_active = @ + 1]
                 ELSE users
     /\ resp' = [view |-> "login", status |-> o.status, body |-> o.body,
                 set |-> IF ok THEN auth_cookies ELSE {},
                 deleted |-> {},
                 tokens |-> IF ok THEN {nextJti} ELSE {},
                 restricted |->
                   \E u \in AccountOf(DB, raw) :
                     \/ ~users[u].is_active
                     \/ users[u].role_status \in RestrictedStatuses]
     /\ UNCHANGED <<profiles, nextPk, inst, last, blacklisted, revoked,
                    regVars, chatVars, svcVars>>

\* PasswordResetView.post.
PasswordReset(raw) ==
  /\ LET o == password_reset_post(DB, raw)
     IN resp' = [NoResp EXCEPT !.view = "password_reset",
                               !.status = o.status, !.body = o.body]
  /\ UNCHANGED <<users, profiles, nextPk, inst, last, regVars, tokenVars,
                 chatVars, svcVars>>

\* LogoutView._create_logout_response.
create_logout_response(code) ==
  [NoResp EXCEPT !.view = "logout", !.status = 200, !.body = code,
                 !.deleted = cookies_to_clear]

\* request.user.update_last_active(): last_active = now, save(update_fields).
StampLastActive(us, u) ==
  IF u = 0 THEN us ELSE [us EXCEPT ![u].last_active = @ + 1]

\* What a client can send as the refresh token: a token it was handed, no
\* token, or a string that is not a token.
Presentable == tokens \cup {NoToken, GarbageToken}

\* LogoutView.post. requester is the authenticated user (0: anonymous);
\* malformed is a request body that is not a mapping.
Logout(requester, presented, all_devices, malformed) ==
  /\ requester # 0 => (requester \in DOMAIN users /\ users[requester].is_active)
  /\ presented \in Presentable
  /\ IF malformed
     THEN /\ resp' = create_logout_response("error_but_logged_out")
          /\ UNCHANGED <<users, tokenVars>>
     ELSE IF presented = NoToken
     THEN /\ requester # 0 => users[requester].last_active < MaxStamp
          /\ users' = StampLastActive(users, requester)
          /\ resp' = create_logout_response("logout_without_token")
          /\ UNCHANGED tokenVars
     ELSE IF ~TokenVerifies(blacklisted, presented)
     THEN /\ resp' = create_logout_response("invalid_token")
          /\ UNCHANGED <<users, tokenVars>>
     ELSE IF requester # 0 /\ presented.user # requester
     THEN /\ resp' = create_logout_response("token_mismatch")
          /\ UNCHANGED <<users, tokenVars>>
     ELSE LET b == Blacklist(outstanding, blacklisted, presented)
              everywhere == all_devices /\ requester # 0
              d == IF everywhere
                   THEN DeleteOutstandingOf(b.outstanding, b.blacklisted,
                                            requester)
                   ELSE b
          IN /\ requester # 0 => users[requester].last_active < MaxStamp
             /\ users' = StampLastActive(users, requester)
             /\ outstanding' = d.outstanding
             /\ blacklisted' = d.blacklisted
             /\ revoked' = revoked \cup
                   (IF requester # 0 THEN {presented.jti} ELSE {}) \cup
                   (IF everywhere
                    THEN {t.jti : t \in {x \in tokens : x.user = requester}}
                    ELSE {})
             /\ resp' = create_logout_response("logout_success")
             /\ UNCHANGED <<tokens, nextJti>>
  /\ UNCHANGED <<profiles, nextPk, inst, last, regVars, chatVars, svcVars>>

\* CustomTokenRefreshSerializer.validate with ROTATE_REFRESH_TOKENS and
\* BLACKLIST_AFTER_ROTATION: the presented token is verified, blacklisted and
\* replaced. outstand tells whether the installed simplejwt stores an
\* OutstandingToken row for the replacement.
Refresh(presented, outstand) ==
  /\ presented \in Presentable
  /\ IF ~TokenVerifies(blacklisted, presented)
     THEN /\ resp' = [NoResp EXCEPT !.view = "refresh", !.status = 401,
                                    !.body = "token_not_valid"]
          /\ UNCHANGED tokenVars
     ELSE LET b == Blacklist(outstanding, blacklisted, presented)
              tok == [jti |-> nextJti, user |-> presented.user]
          IN /\ nextJti <= MaxTokens
             /\ outstanding' = IF outstand THEN b.outstanding \cup {tok}
                               ELSE b.outstanding
             /\ blacklisted' = b.blacklisted
             /\ tokens' = tokens \cup {tok}
             /\ nextJti' = nextJti + 1
             /\ UNCHANGED revoked
             /\ resp' = [NoResp EXCEPT !.view = "refresh", !.status = 200,
                                       !.tokens = {nextJti}]
  /\ UNCHANGED <<users, profiles, nextPk, inst, last, regVars, chatVars, svcVars>>

\* ------------------------------------------------------------ chat sessions
SessionIds == 1..MaxSessions

\* A ChatSession row with the defaults of the model.
NewSession(user) ==
  [user |-> user, title |-> "New Conversation", is_active |-> TRUE,
   is_archived |-> FALSE, is_pinned |-> FALSE, total_tokens_used |-> 0]

SessionFields == {"user", "title", "is_active", "is_archived", "is_pinned"}

\* A get_session that does not filter by user.
get_session_unfiltered(ss, session_id, user) ==
  IF session_id \in DOMAIN ss THEN session_id ELSE 0

\* ChatSessionService.get_session: the id of the session the query returns,
\* 0 when it raises ObjectDoesNotExist.

get_session(ss, session_id, user) ==
  IF session_id \in DOMAIN ss /\ ss[session_id].user = user
  THEN session_id ELSE 0

\* ChatSessionService.update_session: every keyword that names an attribute
\* of the session is set on the fetched object, which is then saved. A
\* changed id makes save() write the row of that id.
update_session(ss, session_id, user, kwargs) ==
  LET s == get_session(ss, session_id, user)
      row == [f \in SessionFields |->
                IF f \in DOMAIN kwargs THEN kwargs[f] ELSE ss[s][f]]
      pk == IF "id" \in DOMAIN kwargs THEN kwargs["id"] ELSE s
  IN IF s = 0 THEN [ss |-> ss, raised |-> "ObjectDoesNotExist"]
     ELSE [ss |-> (pk :> row) @@ ss, raised |-> "no"]

\* ChatSessionService.delete_session: the soft delete.
delete_session(ss, session_id, user) ==
  LET s == get_session(ss, session_id, user)
  IN IF s = 0 THEN [ss |-> ss, raised |-> "ObjectDoesNotExist"]
     ELSE [ss |-> [ss EXCEPT ![s].is_active = FALSE, ![s].is_archived = TRUE],
           raised |-> "no"]

\* ChatSessionService.hard_delete_session.
hard_delete_session(ss, session_id, user) ==
  LET s == get_session(ss, session_id, user)
  IN IF s = 0 THEN [ss |-> ss, raised |-> "ObjectDoesNotExist"]
     ELSE [ss |-> [i \in DOMAIN ss \ {s} |-> ss[i]], raised |-> "no"]

\* Keyword arguments update_session is called with.
UpdateKwargs ==
  {[title |-> "Renamed"], [is_active |-> TRUE, is_archived |-> FALSE],
   [summary |-> "x"]}
  \cup {[user |-> u] : u \in UserIds}
  \cup {[id |-> i] : i \in SessionIds}

SessionOps ==
  {"get_session", "update_session", "archive_session", "delete_session",
   "hard_delete_session", "pin_session", "unpin_session"}

\* Whether user calls an operation on an existing session of somebody else.
NotOwner(session_id, user) ==
  session_id \in DOMAIN sessions /\ sessions[session_id].user # user

Called(op, session_id, user, r) ==
  /\ sessions' = r.ss
  /\ lastCall' = [ownerOnly |-> op \in SessionOps,
                  notOwner |-> NotOwner(session_id, user),
                  raised |-> r.raised]
  /\ UNCHANGED <<users, profiles, nextPk, inst, last, regVars, tokenVars, resp,
               svcVars>>

\* ChatSession.objects.create(user=user): a session row of an existing user.
CreateSessionRow(session_id, user) ==
  /\ session_id \notin DOMAIN sessions
  /\ user \in DOMAIN users
  /\ Called("create", session_id, user,
            [ss |-> (session_id :> NewSession(user)) @@ sessions,
             raised |-> "no"])

\* ChatSessionService.create_session: ChatSession has no max_tokens and no
\* custom_system_prompt field, so objects.create raises TypeError.
CreateSession(session_id, user) ==
  /\ user \in DOMAIN users
  /\ Called("create_session", session_id, user,
            [ss |-> sessions, raised |-> "TypeError"])

GetSession(session_id, user) ==
  /\ user \in DOMAIN users
  /\ Called("get_session", session_id, user,
            [ss |-> sessions,
             raised |-> IF get_session(sessions, session_id, user) = 0
                        THEN "ObjectDoesNotExist" ELSE "no"])

UpdateSession(session_id, user, kwargs) ==
  /\ user \in DOMAIN users
  /\ "user" \in DOMAIN kwargs => kwargs["user"] \in DOMAIN users
  /\ Called("update_session", session_id, user,
            update_session(sessions, session_id, user, kwargs))

ArchiveSession(session_id, user) ==
  /\ user \in DOMAIN users
  /\ Called("archive_session", session_id, user,
            update_session(sessions, session_id, user,
                           [is_archived |-> TRUE, is_active |-> FALSE]))

DeleteSession(session_id, user) ==
  /\ user \in DOMAIN users
  /\ Called("delete_session", session_id, user,
            delete_session(sessions, session_id, user))

HardDeleteSession(session_id, user) ==
  /\ user \in DOMAIN users
  /\ Called("hard_delete_session", session_id, user,
            hard_delete_session(sessions, session_id, user))

PinSession(session_id, user) ==
  /\ user \in DOMAIN users
  /\ Called("pin_session", session_id, user,
            update_session(sessions, session_id, user, [is_pinned |-> TRUE]))

UnpinSession(session_id, user) ==
  /\ user \in DOMAIN users
  /\ Called("unpin_session", session_id, user,
            update_session(sessions, session_id, user, [is_pinned |-> FALSE]))

\* ------------------------------------------------ profile status handlers
\* Values of DeveloperProfile.status (and of the manager profiles) and of
\* ClientProfile.client_status, kept in the status field of a profile row.
ProfileStatuses == {"active", "inactive", "suspended", "onboarding"}

\* A status handler drops the suspended branch.
role_status_without_suspended(kind, status, old) ==
  CASE status = "active" -> "approved"
    [] status = "inactive" -> "inactive"
    [] OTHER -> old

\* handle_developer_status_change, handle_client_status_change,
\* handle_project_manager_status_change, handle_account_manager_status_change:
\* the role_status the handler of a profile type stores for a saved status.
role_status_after_save(kind, status, old) ==
  CASE status = "active" -> "approved"
    [] status = "inactive" -> "inactive"
    [] status = "suspended" /\ kind = "client_profile" -> "suspended"
    [] OTHER -> old

\* A stored profile is fetched, given a status and saved: the row is updated,
\* post_save runs with created False and the handler updates the owner's row.
SaveProfile(pk, status) ==
  /\ \E p \in profiles :
       /\ p.pk = pk
       /\ profiles' = (profiles \ {p}) \cup {[p EXCEPT !.status = status]}
       /\ users' = [users EXCEPT ![p.user].role_status =
                      role_status_after_save(p.kind, status, @)]
       /\ last' = [op |-> "save_profile", users |-> {p.user}, ok |-> TRUE]
  /\ UNCHANGED <<nextPk, inst, regVars, tokenVars, resp, chatVars, svcVars>>

\* ------------------------------------------------------- user documents
DocIds == 1..MaxDocs

\* A UserDocument row with the model's defaults; the collection name
\* "user_<id>_documents" is kept as the user id, 0 for none.
NewDocument(user) ==
  [user |-> user, processing_status |-> "pending", processing_error |-> "",
   retry_count |-> 0, vector_collection_name |-> 0, vector_store_ids |-> {},
   chunk_count |-> 0]

NoJob == [doc |-> 0, user |-> 0]

NoDocCall == [op |-> "none", doc |-> 0, found |-> FALSE, raised |-> "no",
              before |-> NewDocument(0), ids |-> {}]

\* UserDocument.has_embeddings
has_embeddings(row) ==
  /\ row.processing_status = "completed"
  /\ row.vector_collection_name # 0
  /\ row.vector_store_ids # {}

\* UserDocument.save reads self.file.size, which raises FileNotFoundError
\* when the file is no longer in storage, before anything is written.
SaveRaises(d) == d \notin files

\* VectorStorageService.delete_document_embeddings on the stored document d;
\* st is [docs, store, nextVec, raised].
delete_document_embeddings(st, d) ==
  IF ~has_embeddings(st.docs[d]) THEN st
  ELSE LET kept == {e \in st.store : e.id \notin st.docs[d].vector_store_ids}
       IN IF SaveRaises(d)
          THEN [st EXCEPT !.store = kept, !.raised = "FileNotFoundError"]
          ELSE [st EXCEPT !.store = kept,
                          !.docs[d].vector_collection_name = 0,
                          !.docs[d].vector_store_ids = {},
                          !.docs[d].chunk_count = 0]

\* VectorStorageService.store_document_embeddings of n chunks: add_texts
\* stores one entry per chunk under fresh ids, mark_processing_completed
\* then saves the document.
store_document_embeddings(st, d, user, n, outcome) ==
  IF outcome = "store_fails" THEN [st EXCEPT !.raised = "EmbeddingError"]
  ELSE LET ids == st.nextVec..(st.nextVec + n - 1)
           added == [st EXCEPT !.store = @ \cup {[id |-> v, doc |-> d] : v \in ids},
                               !.nextVec = @ + n]
       IN IF SaveRaises(d) THEN [added EXCEPT !.raised = "FileNotFoundError"]
          ELSE [added EXCEPT !.docs[d].processing_status = "completed",
                             !.docs[d].vector_collection_name = user,
                             !.docs[d].vector_store_ids = ids,
                             !.docs[d].chunk_count = n]

\* VectorStorageService.reindex_document
reindex_document(st, d, user, n, outcome) ==
  LET deleted == delete_document_embeddings(st, d)
  IN IF deleted.raised # "no" THEN deleted
     ELSE store_document_embeddings(deleted, d, user, n, outcome)

\* DocumentProcessingService.get_processing_status: the fetched document has
\* no attribute error_message (the field is processing_error).
get_processing_status(dd, d) ==
  IF d \notin DOMAIN dd THEN [raised |-> "DoesNotExist", error_message |-> ""]
  ELSE [raised |-> "AttributeError", error_message |-> ""]

DocState == [docs |-> docs, store |-> store, nextVec |-> nextVec, raised |-> "no"]

DocCommit(st) ==
  /\ docs' = st.docs
  /\ store' = st.store
  /\ nextVec' = st.nextVec
  /\ UNCHANGED <<users, profiles, nextPk, inst, last, regVars, tokenVars, resp,
                 chatVars, ckptVars, keyVars, useVars>>

\* UserDocument.objects.create for an uploaded file; the id is a new UUID,
\* which no row and no entry of the vector store carries.
UploadDocument(d, user) ==
  /\ job = NoJob
  /\ d \notin DOMAIN docs
  /\ \A e \in store : e.doc # d
  /\ user \in DOMAIN users
  /\ DocCommit([DocState EXCEPT !.docs = (d :> NewDocument(user)) @@ docs])
  /\ files' = files \cup {d}
  /\ docCall' = [NoDocCall EXCEPT !.op = "create", !.doc = d]
  /\ UNCHANGED job

\* The uploaded file disappears from storage.
FileLost(d) ==
  /\ d \in files
  /\ files' = files \ {d}
  /\ DocCommit(DocState)
  /\ UNCHANGED <<job, docCall>>

\* process_document up to the first save: the document is fetched for the
\* user and saved as processing; when that save raises, the handler's save
\* raises as well and nothing is written.
ProcessBegin(d, user) ==
  /\ job = NoJob
  /\ LET found == d \in DOMAIN docs /\ docs[d].user = user
         call == [NoDocCall EXCEPT !.op = "process_document", !.doc = d,
                                   !.found = found]
     IN IF ~found
        THEN /\ docCall' = [call EXCEPT !.raised = "DoesNotExist"]
             /\ DocCommit(DocState)
             /\ UNCHANGED job
        ELSE IF SaveRaises(d)
        THEN /\ docCall' = [call EXCEPT !.raised = "FileNotFoundError",
                                        !.before = docs[d]]
             /\ DocCommit(DocState)
             /\ UNCHANGED job
        ELSE /\ docCall' = [call EXCEPT !.raised = "running",
                                        !.before = docs[d]]
             /\ DocCommit([DocState EXCEPT
                             !.docs[d].processing_status = "processing"])
             /\ job' = [doc |-> d, user |-> user]
  /\ UNCHANGED files

\* The rest of process_document: extraction, chunking into n chunks and
\* storing, or the except block that saves the document as failed and
\* re-raises.
ProcessFinish(n, outcome) ==
  /\ job # NoJob
  /\ nextVec + n - 1 <= MaxVecId
  /\ LET d == job.doc
         exc == IF SaveRaises(d) THEN "FileNotFoundError"
                ELSE IF outcome = "load_fails" THEN "ValueError"
                ELSE "no"
         st == IF exc # "no" THEN [DocState EXCEPT !.raised = exc]
               ELSE store_document_embeddings(DocState, d, job.user, n, outcome)
     IN /\ docCall' = [docCall EXCEPT
                         !.raised = st.raised,
                         !.ids = {e.id : e \in st.store \ store}]
        /\ IF st.raised = "no" \/ SaveRaises(d) THEN DocCommit(st)
           ELSE DocCommit([st EXCEPT !.docs[d].processing_status = "failed"])
  /\ job' = NoJob
  /\ UNCHANGED files

GetProcessingStatus(d) ==
  /\ job = NoJob
  /\ docCall' = [NoDocCall EXCEPT
                   !.op = "get_processing_status", !.doc = d,
                   !.found = d \in DOMAIN docs,
                   !.raised = get_processing_status(docs, d).raised]
  /\ DocCommit(DocState)
  /\ UNCHANGED <<files, job>>

\* VectorStorageService.reindex_document(document, new_chunks, user) on a
\* fetched document and its owner.
ReindexDocument(d, n, outcome) ==
  /\ job = NoJob
  /\ d \in DOMAIN docs
  /\ nextVec + n - 1 <= MaxVecId
  /\ LET st == reindex_document(DocState, d, docs[d].user, n, outcome)
     IN /\ DocCommit(st)
        /\ docCall' = [NoDocCall EXCEPT
                         !.op = "reindex_document", !.doc = d, !.found = TRUE,
                         !.raised = st.raised, !.before = docs[d],
                         !.ids = {e.id : e \in st.store \ store}]
  /\ UNCHANGED <<files, job>>

\* VectorStorageService.delete_document_embeddings(document) on a fetched
\* document.
DeleteDocumentEmbeddings(d) ==
  /\ job = NoJob
  /\ d \in DOMAIN docs
  /\ LET st == delete_document_embeddings(DocState, d)
     IN /\ DocCommit(st)
        /\ docCall' = [NoDocCall EXCEPT
                         !.op = "delete_document_embeddings", !.doc = d,
                         !.found = TRUE, !.raised = st.raised,
                         !.before = docs[d]]
  /\ UNCHANGED <<files, job>>

\* DocumentProcessingService.reprocess_document: the text is extracted from
\* the file again, chunked into n chunks and handed to reindex_document.
ReprocessDocument(d, user, n, outcome) ==
  /\ job = NoJob
  /\ nextVec + n - 1 <= MaxVecId
  /\ LET found == d \in DOMAIN docs /\ docs[d].user = user
         call == [NoDocCall EXCEPT !.op = "reprocess_document", !.doc = d,
                                   !.found = found]
     IN IF ~found
        THEN /\ docCall' = [call EXCEPT !.raised = "DoesNotExist"]
             /\ DocCommit(DocState)
        ELSE IF SaveRaises(d) \/ outcome = "load_fails"
        THEN /\ docCall' = [call EXCEPT !.raised = "ValueError",
                                        !.before = docs[d]]
             /\ DocCommit(DocState)
        ELSE LET st == reindex_document(DocState, d, user, n, outcome)
             IN /\ DocCommit(st)
                /\ docCall' = [call EXCEPT
                                 !.raised = st.raised, !.before = docs[d],
                                 !.ids = {e.id : e \in st.store \ store}]
  /\ UNCHANGED <<files, job>>

\* DocumentProcessingService.delete_document: the embeddings are deleted
\* when the document has any, the file is removed when asked for, and the
\* row is deleted.
DeleteDocument(d, user, delete_file) ==
  /\ job = NoJob
  /\ LET found == d \in DOMAIN docs /\ docs[d].user = user
         call == [NoDocCall EXCEPT !.op = "delete_document", !.doc = d,
                                   !.found = found]
     IN IF ~found
        THEN /\ docCall' = [call EXCEPT !.raised = "DoesNotExist"]
             /\ DocCommit(DocState)
             /\ UNCHANGED files
        ELSE LET st == delete_document_embeddings(DocState, d)
             IN /\ docCall' = [call EXCEPT !.raised = st.raised,
                                           !.before = docs[d]]
                /\ IF st.raised # "no"
                   THEN DocCommit(st) /\ UNCHANGED files
                   ELSE /\ DocCommit([st EXCEPT !.docs =
                                        [x \in DOMAIN docs \ {d} |-> st.docs[x]]])
                        /\ files' = IF delete_file THEN files \ {d} ELSE files
  /\ UNCHANGED job

\* ------------------------------------------------------------- API keys
Providers == {"openai", "anthropic"}

\* key_name arguments; "" stands for None, which create_api_key replaces by
\* the one name "<Provider> Key".
KeyNames == {"", "work"}

ApiKeys == {"sk-a", "sk-b"}

\* A Fernet token: the key it was made with and the text it holds; the empty
\* BinaryField of a row that was only just created holds no token.
NoFernetToken == [k |-> -1, plain |-> ""]

NoKeyRow == [user |-> 0, provider |-> "", key_name |-> "", is_default |-> FALSE,
             encrypted_key |-> NoFernetToken, live |-> FALSE]

IdleKeyCall == [pc |-> "idle", key |-> 0, api_key |-> "", row |-> NoKeyRow]

NoDecrypt == [called |-> FALSE, stored |-> "", returned |-> ""]

\* UserAPIKey.get_encryption_key: the configured key (key 0), or a key that
\* Fernet.generate_key() makes for this call alone.
get_encryption_key(conf, fresh) == IF conf THEN 0 ELSE fresh

\* Fernet(key).encrypt(api_key.encode())
FernetEncrypt(k, api_key) == [k |-> k, plain |-> api_key]

\* Fernet(key).decrypt(token).decode(): the text, or InvalidToken for a token
\* that is empty or was made with another key.
FernetDecrypt(k, token) ==
  IF token # NoFernetToken /\ token.k = k THEN token.plain ELSE "InvalidToken"

LiveKeys(kk) == {id \in DOMAIN kk : kk[id].live}

\* UserAPIKey.objects.filter(user, provider, is_default=True).update(is_default=False)
UnsetDefaults(kk, user, provider) ==
  [id \in DOMAIN kk |->
     IF kk[id].live /\ kk[id].user = user /\ kk[id].provider = provider
     THEN [kk[id] EXCEPT !.is_default = FALSE] ELSE kk[id]]

KeyUnchanged ==
  UNCHANGED <<users, profiles, nextPk, inst, last, regVars, tokenVars, resp,
              chatVars, ckptVars, docVars, useVars>>

\* create_api_key, first statement: the defaults of the provider are unset
\* when is_default is given.
CreateKeyCall(p, user, provider, key_name, api_key, is_default) ==
  /\ kreq[p].pc = "idle"
  /\ user \in DOMAIN users
  /\ Cardinality(DOMAIN keys)
       + Cardinality({q \in Procs : kreq[q].pc = "insert"}) < MaxKeys
  /\ keys' = IF is_default THEN UnsetDefaults(keys, user, provider) ELSE keys
  /\ kreq' = [kreq EXCEPT ![p] =
       [pc |-> "insert", key |-> 0, api_key |-> api_key,
        row |-> [NoKeyRow EXCEPT !.user = user, !.provider = provider,
                                 !.key_name = key_name,
                                 !.is_default = is_default, !.live = TRUE]]]
  /\ UNCHANGED <<configured, nextRand, lastDecrypt>>
  /\ KeyUnchanged

\* create_api_key, UserAPIKey.objects.create: IntegrityError when the user
\* has a key of that provider and name (unique_together).
CreateKeyInsert(p) ==
  /\ kreq[p].pc = "insert"
  /\ Cardinality(DOMAIN keys) < MaxKeys
  /\ LET r == kreq[p].row
         id == Cardinality(DOMAIN keys) + 1
         clash == \E o \in LiveKeys(keys) :
                    /\ keys[o].user = r.user
                    /\ keys[o].provider = r.provider
                    /\ keys[o].key_name = r.key_name
     IN IF clash
        THEN /\ kreq' = [kreq EXCEPT ![p] = IdleKeyCall]
             /\ UNCHANGED keys
        ELSE /\ keys' = (id :> r) @@ keys
             /\ kreq' = [kreq EXCEPT ![p].pc = "save", ![p].key = id]
  /\ UNCHANGED <<configured, nextRand, lastDecrypt>>
  /\ KeyUnchanged

\* create_api_key, encrypt_api_key and save(): every column is written from
\* the instance.
CreateKeySave(p) ==
  /\ kreq[p].pc = "save"
  /\ nextRand <= MaxRand
  /\ LET k == get_encryption_key(configured, nextRand)
     IN keys' = [keys EXCEPT ![kreq[p].key] =
                   [kreq[p].row EXCEPT
                      !.encrypted_key = FernetEncrypt(k, kreq[p].api_key)]]
  /\ nextRand' = IF configured THEN nextRand ELSE nextRand + 1
  /\ kreq' = [kreq EXCEPT ![p] = IdleKeyCall]
  /\ UNCHANGED <<configured, lastDecrypt>>
  /\ KeyUnchanged

\* set_default_key, UserAPIKey.objects.get(id=key_id, user=user)
SetDefaultGet(p, user, key_id) ==
  /\ kreq[p].pc = "idle"
  /\ key_id \in LiveKeys(keys)
  /\ keys[key_id].user = user
  /\ kreq' = [kreq EXCEPT ![p] =
                [IdleKeyCall EXCEPT !.pc = "unset", !.key = key_id,
                                    !.row = keys[key_id]]]
  /\ UNCHANGED <<keys, configured, nextRand, lastDecrypt>>
  /\ KeyUnchanged

\* set_default_key, the update that unsets the other defaults
SetDefaultUnset(p) ==
  /\ kreq[p].pc = "unset"
  /\ keys' = UnsetDefaults(keys, kreq[p].row.user, kreq[p].row.provider)
  /\ kreq' = [kreq EXCEPT ![p].pc = "set"]
  /\ UNCHANGED <<configured, nextRand, lastDecrypt>>
  /\ KeyUnchanged

\* set_default_key, is_default = True and save() of the fetched instance
SetDefaultSave(p) ==
  /\ kreq[p].pc = "set"
  /\ keys' = [keys EXCEPT ![kreq[p].key] =
                [kreq[p].row EXCEPT !.is_default = TRUE]]
  /\ kreq' = [kreq EXCEPT ![p] = IdleKeyCall]
  /\ UNCHANGED <<configured, nextRand, lastDecrypt>>
  /\ KeyUnchanged

\* delete_key
DeleteKey(user, key_id) ==
  /\ key_id \in LiveKeys(keys)
  /\ keys' = [keys EXCEPT ![key_id].live =
                IF keys[key_id].user = user THEN FALSE ELSE @]
  /\ UNCHANGED <<kreq, configured, nextRand, lastDecrypt>>
  /\ KeyUnchanged

\* The deployment defines API_KEY_ENCRYPTION_KEY in its settings.
ConfigureEncryptionKey ==
  /\ ~configured
  /\ configured' = TRUE
  /\ UNCHANGED <<keys, kreq, nextRand, lastDecrypt>>
  /\ KeyUnchanged

\* get_default_key: the default key of the provider, or else any key of it.
get_default_key(kk, user, provider) ==
  LET mine == {id \in LiveKeys(kk) :
                 kk[id].user = user /\ kk[id].provider = provider}
      dflt == {id \in mine : kk[id].is_default}
  IN IF Cardinality(dflt) = 1 THEN dflt
     ELSE IF dflt = {} THEN mine
     ELSE {}

\* get_decrypted_key in a later call: the key found is decrypted with the
\* key get_encryption_key returns now.
GetDecryptedKey(user, provider) ==
  /\ user \in DOMAIN users
  /\ nextRand <= MaxRand
  /\ \E id \in get_default_key(keys, user, provider) :
       /\ keys[id].encrypted_key # NoFernetToken
       /\ lastDecrypt' =
            [called |-> TRUE, stored |-> keys[id].encrypted_key.plain,
             returned |-> FernetDecrypt(get_encryption_key(configured, nextRand),
                                        keys[id].encrypted_key)]
  /\ nextRand' = IF configured THEN nextRand ELSE nextRand + 1
  /\ UNCHANGED <<keys, kreq, configured>>
  /\ KeyUnchanged

\* ------------------------------------------------- phone number validation
\* A phone number is a sequence of characters.
Digits == {"0", "1", "2", "3", "4", "5", "6", "7", "8", "9"}

\* re.sub(r'[\s\-\+\(\)]', '', phone_number.strip())
NotFormatting(c) == c \notin {" ", "-", "+", "(", ")"}

CleanPhone(s) == SelectSeq(s, NotFormatting)

\* if cleaned_phone.startswith('91'): cleaned_phone = cleaned_phone[2:]
StripCountryCode(c) ==
  IF Len(c) >= 2 /\ c[1] = "9" /\ c[2] = "1" THEN SubSeq(c, 3, Len(c)) ELSE c

\* RegisterView._validate_indian_phone_number: "valid" or the error code.
validate_indian_phone_number(s) ==
  IF s = <<>> THEN "valid"
  ELSE
    LET c == StripCountryCode(CleanPhone(s))
    IN IF c = <<>> \/ \E i \in 1..Len(c) : c[i] \notin Digits
       THEN "invalid_phone_format"
       ELSE IF Len(c) # 10 THEN "invalid_phone_length"
       ELSE IF c[1] \notin {"6", "7", "8", "9"} THEN "invalid_phone_prefix"
       ELSE IF Cardinality({c[i] : i \in 1..Len(c)}) = 1
       THEN "invalid_phone_pattern"
       ELSE IF c \in {<<"1", "2", "3", "4", "5", "6", "7", "8", "9", "0">>,
                      <<"0", "1", "2", "3", "4", "5", "6", "7", "8", "9">>}
       THEN "invalid_phone_pattern"
       ELSE "valid"

\* Numbers the validator is given: a way of writing the country code, two
\* leading characters and a run of one digit.
CountryPrefixes ==
  {<<>>, <<"+", "9", "1">>, <<"9", "1">>, <<"+", "9", "1", " ">>,
   <<"(", "+", "9", "1", ")", "-">>}

PhoneInputs ==
  {pre \o <<d1, d2>> \o [i \in 1..k |-> r] :
     pre \in CountryPrefixes, d1 \in {"5", "6", "9"}, d2 \in {"1", "9", "x"},
     r \in {"1", "9"}, k \in {7, 8, 9}}

ValidatePhone(s) ==
  /\ phoneCheck' = [input |-> s, code |-> validate_indian_phone_number(s)]
  /\ UNCHANGED <<users, profiles, nextPk, inst, last, regVars, tokenVars, resp,
                 chatVars, ckptVars, docVars, keyVars, usage, treq, costs>>

\* ---------------------------------------------------------- token usage
IdleTrack == [pc |-> "idle", session |-> 0, total_tokens_used |-> 0]

\* TokenUsage.save: total_tokens is computed from the parts.
TokenUsageSave(prompt_tokens, completion_tokens, reasoning_tokens) ==
  prompt_tokens + completion_tokens + reasoning_tokens

UsageUnchanged ==
  UNCHANGED <<users, profiles, nextPk, inst, last, regVars, tokenVars, resp,
              ckptVars, docVars, keyVars, phoneCheck, costs>>

\* track_usage up to TokenUsage.objects.create and the increment of
\* total_tokens_used on the session object the caller passed in.
TrackUsageCreate(p, s, prompt_tokens, completion_tokens) ==
  /\ treq[p].pc = "idle"
  /\ s \in DOMAIN sessions
  /\ Cardinality(DOMAIN usage) < MaxUsage
  /\ LET total == TokenUsageSave(prompt_tokens, completion_tokens, 0)
     IN /\ usage' = (Cardinality(DOMAIN usage) + 1 :>
                       [chat_session |-> s, total_tokens |-> total]) @@ usage
        /\ treq' = [treq EXCEPT ![p] =
                      [pc |-> "update", session |-> s,
                       total_tokens_used |->
                         sessions[s].total_tokens_used + total]]
  /\ UNCHANGED chatVars
  /\ UsageUnchanged

\* track_usage, session.total_cost += usage.total_cost: ChatSession has no
\* total_cost, the read raises AttributeError and session.save is not reached.
TrackUsageUpdate(p) ==
  /\ treq[p].pc = "update"
  /\ treq' = [treq EXCEPT ![p] = IdleTrack]
  /\ lastCall' = [ownerOnly |-> FALSE, notOwner |-> FALSE,
                  raised |-> "AttributeError"]
  /\ UNCHANGED <<sessions, usage>>
  /\ UsageUnchanged

\* update_session_analytics: save(update_fields=[..., 'total_cost', ...])
\* names a field the model does not have and raises ValueError.
UpdateSessionAnalytics(s, tokens_used) ==
  /\ lastCall' = [ownerOnly |-> FALSE, notOwner |-> FALSE,
                  raised |-> IF s \in DOMAIN sessions THEN "ValueError"
                             ELSE "ObjectDoesNotExist"]
  /\ UNCHANGED <<sessions, usage, treq>>
  /\ UsageUnchanged

\* ------------------------------------------------------ cost calculation
\* Prices are Decimals with two places, dollars per million tokens; they are
\* kept in cents. A cost is then a whole number of 1e-8 dollars: both
\* calculators work in Decimal arithmetic, where the product and the
\* division by 1000000 are exact for these operands, in either order.
\* PRICING of TokenUsage.calculate_cost.
PRICING ==
  [x \in {"gpt-4o", "gpt-4o-mini", "gpt-4-turbo", "gpt-3.5-turbo",
          "o1-preview", "o1-mini"} |->
     CASE x = "gpt-4o" -> [prompt |-> 250, completion |-> 1000]
       [] x = "gpt-4o-mini" -> [prompt |-> 15, completion |-> 60]
       [] x = "gpt-4-turbo" -> [prompt |-> 1000, completion |-> 3000]
       [] x = "gpt-3.5-turbo" -> [prompt |-> 50, completion |-> 150]
       [] x = "o1-preview" -> [prompt |-> 1500, completion |-> 6000]
       [] x = "o1-mini" -> [prompt |-> 300, completion |-> 1200]]

\* TokenUsageService.MODEL_PRICING
MODEL_PRICING ==
  [x \in {"gpt-4o", "gpt-4o-mini", "gpt-3.5-turbo"} |->
     CASE x = "gpt-4o" -> [prompt |-> 250, completion |-> 1000]
       [] x = "gpt-4o-mini" -> [prompt |-> 15, completion |-> 60]
       [] x = "gpt-3.5-turbo" -> [prompt |-> 50, completion |-> 150]]

\* dict.get(key, default)
DictGet(table, key, default) ==
  IF key \in DOMAIN table THEN table[key] ELSE default

\* TokenUsage.calculate_cost
TokenUsage_calculate_cost(model_name, prompt_tokens, completion_tokens, reasoning_tokens) ==
  LET model_pricing == DictGet(PRICING, model_name, PRICING["gpt-4o-mini"])
      prompt_cost == prompt_tokens * model_pricing.prompt
      completion_cost ==
        completion_tokens * model_pricing.completion
          + (IF reasoning_tokens # 0
             THEN reasoning_tokens * model_pricing.completion ELSE 0)
  IN [prompt_cost |-> prompt_cost, completion_cost |-> completion_cost,
      total_cost |-> prompt_cost + completion_cost]

\* TokenUsageService.calculate_cost
TokenUsageService_calculate_cost(model_name, prompt_tokens, completion_tokens) ==
  LET pricing == DictGet(MODEL_PRICING, model_name, MODEL_PRICING["gpt-4o"])
      prompt_cost == prompt_tokens * pricing.prompt
      completion_cost == completion_tokens * pricing.completion
  IN [prompt_cost |-> prompt_cost, completion_cost |-> completion_cost,
      total_cost |-> prompt_cost + completion_cost]

\* Model names: those of either pricing table and one of neither.
CostModelNames == DOMAIN PRICING \cup DOMAIN MODEL_PRICING \cup {"claude-3"}

NoCosts ==
  [model_name |-> "", prompt_tokens |-> 0, completion_tokens |-> 0,
   of_model |-> [prompt_cost |-> 0, completion_cost |-> 0, total_cost |-> 0],
   of_service |-> [prompt_cost |-> 0, completion_cost |-> 0, total_cost |-> 0]]

\* Both calculators are called with the same arguments and no reasoning
\* tokens.
CalculateCost(model_name, prompt_tokens, completion_tokens) ==
  /\ costs' =
       [model_name |-> model_name, prompt_tokens |-> prompt_tokens,
        completion_tokens |-> completion_tokens,
        of_model |-> TokenUsage_calculate_cost(model_name, prompt_tokens,
                                               completion_tokens, 0),
        of_service |-> TokenUsageService_calculate_cost(model_name,
                                                        prompt_tokens,
                                                        completion_tokens)]
  /\ UNCHANGED <<users, profiles, nextPk, inst, last, regVars, tokenVars, resp,
                 chatVars, ckptVars, docVars, keyVars, phoneCheck, usage, treq>>

\* --------------------------------------------------- LangGraph checkpoints
\* The checkpoint tables behind MessageService._get_checkpointer hold the
\* conversation state of a thread; the thread id is the chat session id.
\* An agent run on a stored session writes state under the session's id.
AgentCheckpoint(thread_id) ==
  /\ thread_id \in DOMAIN sessions
  /\ checkpoints' = checkpoints \cup {thread_id}
  /\ UNCHANGED <<users, profiles, nextPk, inst, last, regVars, tokenVars, resp,
                 chatVars, docVars, keyVars, useVars>>

\* MessageService.delete_thread_history: deletes the state of one thread.
delete_thread_history(cp, thread_id) == cp \ {thread_id}

DeleteThreadHistory(thread_id) ==
  /\ checkpoints' = delete_thread_history(checkpoints, thread_id)
  /\ UNCHANGED <<users, profiles, nextPk, inst, last, regVars, tokenVars, resp,
                 chatVars, docVars, keyVars, useVars>>

Init ==
  /\ users = <<>>
  /\ profiles = {}
  /\ nextPk = 1
  /\ inst = <<>>
  /\ last = [op |-> "init", users |-> {}, ok |-> TRUE]
  /\ reg = [p \in Procs |-> IdleRequest]
  /\ tokens = {}
  /\ outstanding = {}
  /\ blacklisted = {}
  /\ nextJti = 1
  /\ revoked = {}
  /\ resp = NoResp
  /\ sessions = <<>>
  /\ lastCall = [ownerOnly |-> FALSE, notOwner |-> FALSE, raised |-> "no"]
  /\ checkpoints = {}
  /\ docs = <<>>
  /\ files = {}
  /\ store = {}
  /\ nextVec = 1
  /\ job = NoJob
  /\ docCall = NoDocCall
  /\ keys = <<>>
  /\ kreq = [p \in Procs |-> IdleKeyCall]
  /\ configured = FALSE
  /\ nextRand = 1
  /\ lastDecrypt = NoDecrypt
  /\ phoneCheck = [input |-> <<>>, code |-> "none"]
  /\ costs = NoCosts
  /\ usage = <<>>
  /\ treq = [p \in Procs |-> IdleTrack]

\* Users are created and given new roles.
Next ==
  \/ \E email \in Addrs, role \in Roles, keep \in BOOLEAN :
       CreateUser(email, role, keep)
  \/ \E u \in UserIds, role \in Roles : ChangeRoleFresh(u, role)
  \/ \E u \in UserIds, role \in Roles : ChangeRoleHeld(u, role)

Spec == Init /\ [][Next]_vars

\* Tier changes on users created with each role.
TierInputs == Tiers \cup {"", "gold"}

NextTier ==
  \/ \E email \in Addrs, role \in Roles : CreateUser(email, role, FALSE)
  \/ \E u \in UserIds, t \in TierInputs : UpdateSubscriptionAPI(u, t)
  \/ \E S \in SUBSET UserIds, t \in {"professional", "business", "enterprise"} :
       AdminUpgrade(S, t)

SpecTier == Init /\ [][NextTier]_vars

\* Concurrent requests to the two registration views.
RoleInputs == {"client", "developer", "admin", "manager", ""}

NextRegister ==
  \/ \E p \in Procs, raw \in RawEmails, role \in RoleInputs,
        invitation \in BOOLEAN : RegisterValidate(p, raw, role, invitation)
  \/ \E p \in Procs : RegisterIsValid(p)
  \/ \E p \in Procs : RegisterSave(p)
  \/ \E p \in Procs, organization_id \in {0, 1}, raw \in RawEmails :
       OrganizationRegister(p, organization_id, raw)

SpecRegister == Init /\ [][NextRegister]_vars

\* Accounts in every state of is_active and role_status are logged into and
\* asked for a password reset.
AccountRoles == {"client", "developer"}

NextLogin ==
  \/ \E email \in Addrs, role \in AccountRoles : CreateAccount(email, role)
  \/ \E u \in UserIds, st \in RoleStatuses : AdminSetRoleStatus(u, st)
  \/ \E S \in SUBSET UserIds, active \in BOOLEAN : AdminSetActive(S, active)
  \/ \E raw \in LoginEmails, password \in Passwords, docapi \in BOOLEAN :
       Login(raw, password, docapi)
  \/ \E raw \in LoginEmails \cup {NoEmail} : PasswordReset(raw)

SpecLogin == Init /\ [][NextLogin]_vars

\* Sessions are opened, refreshed and logged out of.
NextLogout ==
  \/ \E email \in Addrs : CreateAccount(email, "developer")
  \/ \E raw \in RawEmails : Login(raw, "pw", TRUE)
  \/ \E requester \in {0} \cup UserIds, presented \in Presentable,
        all_devices \in BOOLEAN, malformed \in BOOLEAN :
       Logout(requester, presented, all_devices, malformed)
  \/ \E presented \in Presentable, outstand \in BOOLEAN :
       Refresh(presented, outstand)

SpecLogout == Init /\ [][NextLogout]_vars

\* Chat session service calls by the users of the system.
NextChat ==
  \/ CreateUser(IF users = <<>> THEN "a@x" ELSE "b@x", "client", FALSE)
  \/ \E s \in SessionIds, u \in UserIds : CreateSessionRow(s, u)
  \/ \E s \in SessionIds, u \in UserIds : CreateSession(s, u)
  \/ \E s \in SessionIds, u \in UserIds : GetSession(s, u)
  \/ \E s \in SessionIds, u \in UserIds, kwargs \in UpdateKwargs :
       UpdateSession(s, u, kwargs)
  \/ \E s \in SessionIds, u \in UserIds : ArchiveSession(s, u)
  \/ \E s \in SessionIds, u \in UserIds : DeleteSession(s, u)
  \/ \E s \in SessionIds, u \in UserIds : HardDeleteSession(s, u)
  \/ \E s \in SessionIds, u \in UserIds : PinSession(s, u)
  \/ \E s \in SessionIds, u \in UserIds : UnpinSession(s, u)

SpecChat == Init /\ [][NextChat]_vars

\* Sessions are created, talked to by the agent and deleted for good.
NextCheckpoint ==
  \/ \E email \in Addrs : CreateUser(email, "client", FALSE)
  \/ \E s \in SessionIds, u \in UserIds : CreateSessionRow(s, u)
  \/ \E s \in SessionIds : AgentCheckpoint(s)
  \/ \E s \in SessionIds, u \in UserIds : DeleteSession(s, u)
  \/ \E s \in SessionIds, u \in UserIds : HardDeleteSession(s, u)
  \/ \E s \in SessionIds : DeleteThreadHistory(s)

SpecCheckpoint == Init /\ [][NextCheckpoint]_vars

\* Profiles of users of every role are saved with every status.
NextProfile ==
  \/ \E role \in Roles :
       CreateUser(IF users = <<>> THEN "a@x" ELSE "b@x", role, FALSE)
  \/ \E u \in UserIds, st \in RoleStatuses : AdminSetRoleStatus(u, st)
  \/ \E pk \in 1..MaxProfilePk, st \in ProfileStatuses : SaveProfile(pk, st)

SpecProfile == Init /\ [][NextProfile]_vars

\* Documents are uploaded, processed, asked for their status and reindexed.
Outcomes == {"ok", "load_fails", "store_fails"}

NextDoc ==
  \/ \E email \in Addrs : CreateUser(email, "client", FALSE)
  \/ \E d \in DocIds, u \in UserIds : UploadDocument(d, u)
  \/ \E d \in DocIds : FileLost(d)
  \/ \E d \in DocIds, u \in UserIds : ProcessBegin(d, u)
  \/ \E n \in 1..MaxChunks, outcome \in Outcomes : ProcessFinish(n, outcome)
  \/ \E d \in DocIds : GetProcessingStatus(d)
  \/ \E d \in DocIds, n \in 1..MaxChunks, outcome \in Outcomes \ {"load_fails"} :
       ReindexDocument(d, n, outcome)

SpecDoc == Init /\ [][NextDoc]_vars

\* Documents are processed, reprocessed, reindexed and deleted, with and
\* without their embeddings; every file stays in storage until its document
\* is deleted.
NextEmbed ==
  \/ CreateUser(IF users = <<>> THEN "a@x" ELSE "b@x", "client", FALSE)
  \/ \E d \in DocIds, u \in UserIds : UploadDocument(d, u)
  \/ \E d \in DocIds, u \in UserIds : ProcessBegin(d, u)
  \/ \E n \in 1..MaxChunks, outcome \in Outcomes : ProcessFinish(n, outcome)
  \/ \E d \in DocIds, u \in UserIds, n \in 1..MaxChunks, outcome \in Outcomes :
       ReprocessDocument(d, u, n, outcome)
  \/ \E d \in DocIds, n \in 1..MaxChunks, outcome \in Outcomes \ {"load_fails"} :
       ReindexDocument(d, n, outcome)
  \/ \E d \in DocIds : DeleteDocumentEmbeddings(d)
  \/ \E d \in DocIds, u \in UserIds, delete_file \in BOOLEAN :
       DeleteDocument(d, u, delete_file)

SpecEmbed == Init /\ [][NextEmbed]_vars

\* Concurrent calls of the API key service.
NextKey ==
  \/ CreateUser("a@x", "client", FALSE)
  \/ \E p \in Procs, u \in UserIds, provider \in Providers, name \in KeyNames,
        d \in BOOLEAN : CreateKeyCall(p, u, provider, name, "sk-a", d)
  \/ \E p \in Procs : CreateKeyInsert(p)
  \/ \E p \in Procs : CreateKeySave(p)
  \/ \E p \in Procs, u \in UserIds, id \in 1..MaxKeys : SetDefaultGet(p, u, id)
  \/ \E p \in Procs : SetDefaultUnset(p)
  \/ \E p \in Procs : SetDefaultSave(p)
  \/ \E u \in UserIds, id \in 1..MaxKeys : DeleteKey(u, id)

SpecKey == Init /\ [][NextKey]_vars

\* Keys are stored and read back, with and without the encryption setting.
NextCrypt ==
  \/ \E email \in Addrs : CreateUser(email, "client", FALSE)
  \/ \E u \in UserIds, provider \in Providers, name \in KeyNames,
        k \in ApiKeys, d \in BOOLEAN :
       CreateKeyCall("p1", u, provider, name, k, d)
  \/ CreateKeyInsert("p1")
  \/ CreateKeySave("p1")
  \/ ConfigureEncryptionKey
  \/ \E u \in UserIds, provider \in Providers : GetDecryptedKey(u, provider)

SpecCrypt == Init /\ [][NextCrypt]_vars

\* Phone numbers are validated, one after another.
NextPhone == \E s \in PhoneInputs : ValidatePhone(s)

SpecPhone == Init /\ [][NextPhone]_vars

\* Token usage is tracked for the sessions of the users.
NextUsage ==
  \/ \E email \in Addrs : CreateUser(email, "client", FALSE)
  \/ \E s \in SessionIds, u \in UserIds : CreateSessionRow(s, u)
  \/ \E p \in Procs, s \in SessionIds, pt \in 1..2, ct \in 0..1 :
       TrackUsageCreate(p, s, pt, ct)
  \/ \E p \in Procs : TrackUsageUpdate(p)
  \/ \E s \in SessionIds, t \in 1..2 : UpdateSessionAnalytics(s, t)

SpecUsage == Init /\ [][NextUsage]_vars

\* Costs are calculated for every model name and small token counts.
NextCost ==
  \E model_name \in CostModelNames, prompt_tokens \in 0..MaxCostTokens,
     completion_tokens \in 0..MaxCostTokens :
    CalculateCost(model_name, prompt_tokens, completion_tokens)

SpecCost == Init /\ [][NextCost]_vars

\* ---------------------------------------------------------------- claims
ProfilesOfUser(u) == {p \in profiles : p.user = u}

\* C1: every user whose role has a profile type has exactly one role profile,
\* of the type matching the current role, and no profile of another type; a
\* user with role admin has no role profile.
C1_ExactlyOneMatchingProfile ==
  \A u \in DOMAIN users :
    IF ProfileKindOf(users[u].role) = "none"
    THEN ProfilesOfUser(u) = {}
    ELSE /\ Cardinality(ProfilesOfUser(u)) = 1
         /\ \A p \in ProfilesOfUser(u) : p.kind = ProfileKindOf(users[u].role)
\* Whether the tier-derived fields of profile p are those defined for a tier.
PermMatchesTier(p, tier) ==
  CASE p.kind = "developer_profile" -> p.perm = DeveloperPerm(tier)
    [] p.kind = "client_profile" -> p.perm = ClientPerm(tier)
    [] p.kind = "project_manager_profile" ->
         IF tier \in DOMAIN tier_quotas THEN p.perm = ProjectManagerPerm(tier)
         ELSE \A t \in DOMAIN tier_quotas : p.perm # ProjectManagerPerm(t)
    [] OTHER -> TRUE

\* C2: every change of a user's subscription_tier made by update_subscription,
\* the update_subscription API action or an admin upgrade action leaves the
\* tier-derived permission fields of the user's role profile equal to the
\* values defined for the new tier.
C2_TierChangeCascades ==
  (last.op \in {"update_subscription", "admin_upgrade"} /\ last.ok) =>
    \A u \in last.users : \A p \in ProfilesOfUser(u) :
      p.kind = ProfileKindOf(users[u].role)
        => PermMatchesTier(p, users[u].subscription_tier)

\* C3: a registration request whose email already belongs to a stored user is
\* answered with an error and creates no user, and no two stored users have
\* the same email, however concurrent registrations interleave.
C3_DuplicateEmailRejected ==
  /\ \A p \in Procs :
       (reg[p].pc = "done" /\ reg[p].dup)
         => (reg[p].status >= 400 /\ reg[p].created = 0)
  /\ \A u, v \in DOMAIN users : users[u].email = users[v].email => u = v

\* A request for a registered email was refused with 400, and a request that
\* lost the race against a concurrent registration of its email got 500.
C3_Witness ==
  \E p, q \in Procs :
    /\ reg[p].pc = "done" /\ reg[p].view = "register"
    /\ reg[p].dup /\ reg[p].status = 400
    /\ reg[q].pc = "done" /\ reg[q].view = "register"
    /\ ~reg[q].dup /\ reg[q].status = 500

\* C4: every response of LogoutView.post has status 200 and deletes the
\* cookies auth_state, access_token, refresh_token and csrftoken.
C4_LogoutClearsCookies ==
  resp.view = "logout" =>
    /\ resp.status = 200
    /\ {"auth_state", "access_token", "refresh_token", "csrftoken"}
         \subseteq resp.deleted

\* A logout that presented another user's token, after a successful logout.
C4_Witness ==
  /\ resp.view = "logout"
  /\ resp.body = "token_mismatch"
  /\ revoked # {}

\* C5: a login request for an existing account that is inactive or whose
\* role_status is suspended, inactive or blocked is answered with 403, whatever
\* the password, hands out no token, sets no cookie, and leaves login_count
\* and last_active (and the token tables) as they were.
C5_RestrictedLoginRefused ==
  [][(resp'.view = "login" /\ resp'.restricted)
       => /\ resp'.status = 403
          /\ resp'.tokens = {}
          /\ resp'.set = {}
          /\ UNCHANGED <<users, tokens, outstanding>>]_vars

\* C6: no request without an invitation token to RegisterView or
\* OrganizationRegisterView stores a user whose role is not client.
C6_PublicRegistrationOnlyClients ==
  \A p \in Procs :
    (reg[p].pc = "done" /\ ~reg[p].invitation /\ reg[p].created # 0)
      => users[reg[p].created].role = "client"

\* One request without invitation stored a client, another one that asked for
\* a different role was refused.
C6_Witness ==
  \E p, q \in Procs :
    /\ reg[p].pc = "done" /\ ~reg[p].invitation /\ reg[p].created # 0
    /\ reg[q].pc = "done" /\ reg[q].code = "direct_registration_restricted"

\* C7: a refresh token that a user logged out with, and, after an all-devices
\* logout, every refresh token issued to that user before it, is refused by
\* every later refresh.
C7_LoggedOutTokensRefused ==
  \A t \in tokens : t.jti \in revoked => ~TokenVerifies(blacklisted, t)

\* C8: for any password, a refused login (a 4xx answer) for an email without
\* an account and a refused login for an email with an account get the same
\* status and body.
C8_LoginHidesAccountExistence ==
  \A r1, r2 \in LoginEmails, pw \in Passwords \ {""}, docapi \in BOOLEAN :
    LET o1 == login_post(DB, r1, pw, docapi)
        o2 == login_post(DB, r2, pw, docapi)
    IN (/\ AccountOf(DB, r1) = {}
        /\ AccountOf(DB, r2) # {}
        /\ o1.status \in {400, 401, 403}
        /\ o2.status \in {400, 401, 403})
         => (o1.status = o2.status /\ o1.body = o2.body)

\* C9: for every non-empty email, PasswordResetView.post returns the same
\* status and body whether or not a user with that email is stored.
C9_ResetHidesAccountExistence ==
  \A r1, r2 \in LoginEmails :
    (UsersByEmail(DB, r1) = {} /\ UsersByEmail(DB, r2) # {})
      => password_reset_post(DB, r1) = password_reset_post(DB, r2)

\* C10: get_session, update_session, archive_session, delete_session,
\* hard_delete_session, pin_session and unpin_session, called with a user who
\* is not the owner of the session, raise ObjectDoesNotExist and leave the
\* session table as it was.
C10_SessionOperationsOwnerOnly ==
  [][(lastCall'.ownerOnly /\ lastCall'.notOwner)
       => (lastCall'.raised = "ObjectDoesNotExist" /\ sessions' = sessions)]_vars

\* A user called one of the operations on a pinned session of somebody else.
C10_Witness ==
  /\ lastCall.ownerOnly
  /\ lastCall.notOwner
  /\ lastCall.raised = "ObjectDoesNotExist"
  /\ \A s \in DOMAIN sessions : sessions[s].is_pinned
  /\ Cardinality(DOMAIN sessions) = 1

\* C11: once hard_delete_session has returned, the ChatSession row is gone and
\* no checkpoint state is stored under the thread id of that session.
C11_HardDeleteRemovesCheckpoints ==
  [][\A s \in SessionIds :
       (s \in DOMAIN sessions /\ lastCall'.raised = "no"
          /\ s \notin DOMAIN sessions')
         => s \notin checkpoints']_vars

\* C12: the save of an existing role profile leaves the owning user's stored
\* role_status approved when the saved status is active, inactive when it is
\* inactive, suspended when a client profile's client_status is suspended, and
\* as it was for every other status.
C12_ProfileStatusSynchronised ==
  [][\A pk \in 1..MaxProfilePk, st \in ProfileStatuses :
       SaveProfile(pk, st) =>
         \A p \in profiles :
           p.pk = pk =>
             users'[p.user].role_status =
               (IF st = "active" THEN "approved"
                ELSE IF st = "inactive" THEN "inactive"
                ELSE IF st = "suspended" /\ p.kind = "client_profile"
                THEN "suspended"
                ELSE users[p.user].role_status)]_vars

\* A client profile was saved as suspended and a developer profile as
\* suspended too: the client is suspended, the developer still approved.
C12_Witness ==
  /\ last.op = "save_profile"
  /\ \E p \in profiles :
       /\ p.kind = "client_profile" /\ p.status = "suspended"
       /\ users[p.user].role_status = "suspended"
  /\ \E p \in profiles :
       /\ p.kind = "developer_profile" /\ p.status = "suspended"
       /\ users[p.user].role_status = "approved"

\* C13: once a save that creates a user, or changes the role of an existing
\* user, has completed, the stored role is the new role and the stored
\* role_status is approved, for every role including admin.
C13_RoleSaveApproves ==
  (last.op \in {"create_user", "change_role"} /\ last.ok) =>
    \A u \in last.users :
      /\ users[u].role = last.role
      /\ users[u].role_status = "approved"

\* C14: process_document stores processing_status processing before any
\* extraction, returns only with the stored status completed, raises (for a
\* document of the calling user) only with the stored status failed, and
\* leaves no document in processing once it has returned or raised.
C14_ProcessingStatusSettled ==
  /\ job # NoJob => docs[job.doc].processing_status = "processing"
  /\ (docCall.op = "process_document" /\ docCall.raised = "no")
       => docs[docCall.doc].processing_status = "completed"
  /\ (docCall.op = "process_document" /\ docCall.found
        /\ docCall.raised \notin {"no", "running"})
       => docs[docCall.doc].processing_status = "failed"
  /\ job = NoJob => \A d \in DOMAIN docs : docs[d].processing_status # "processing"

\* C15: when process_document fails, the exception is raised to the caller,
\* the error message is stored on the document and returned by
\* get_processing_status, and retry_count is one higher than before.
C15_FailureRecorded ==
  (docCall.op = "process_document" /\ docCall.found
     /\ docCall.raised \notin {"no", "running"})
    => LET d == docCall.doc
       IN /\ docs[d].processing_error = docCall.raised
          /\ docs[d].retry_count = docCall.before.retry_count + 1
          /\ get_processing_status(docs, d) =
               [raised |-> "no", error_message |-> docCall.raised]

\* C16: once reindex_document has returned, none of the vector ids the
\* document had before is left in the store, the store holds for the document
\* exactly one entry per new chunk, and vector_store_ids and chunk_count of the
\* document are the new ids and their number.
C16_ReindexReplacesVectors ==
  (docCall.op = "reindex_document" /\ docCall.raised = "no")
    => LET d == docCall.doc
       IN /\ \A e \in store : e.id \notin docCall.before.vector_store_ids
          /\ {e.id : e \in {x \in store : x.doc = d}} = docCall.ids
          /\ docs[d].vector_store_ids = docCall.ids
          /\ docs[d].chunk_count = Cardinality(docCall.ids)

\* C17: for every user and provider at most one UserAPIKey has is_default
\* true, in every state reached through create_api_key, set_default_key and
\* delete_key, concurrent calls included.
C17_AtMostOneDefault ==
  \A a, b \in LiveKeys(keys) :
    (/\ keys[a].is_default /\ keys[b].is_default
     /\ keys[a].user = keys[b].user
     /\ keys[a].provider = keys[b].provider) => a = b

\* C18: the text get_decrypted_key returns for a stored key is exactly the
\* text encrypt_api_key encrypted, in a later call or another process too.
C18_DecryptReturnsKey ==
  lastDecrypt.called => lastDecrypt.returned = lastDecrypt.stored

\* A number as the specification describes the accepted ones: without spaces,
\* hyphens and parentheses and without a leading country code (+91, or 91 in
\* front of ten more digits) it is ten digits, the first of them 6 to 9, and
\* not one digit repeated.
IntendedPhone(s) ==
  LET c == SelectSeq(s, LAMBDA x : x \notin {" ", "-", "(", ")"})
      body == IF Len(c) >= 3 /\ c[1] = "+" /\ c[2] = "9" /\ c[3] = "1"
              THEN SubSeq(c, 4, Len(c))
              ELSE IF Len(c) = 12 /\ c[1] = "9" /\ c[2] = "1"
              THEN SubSeq(c, 3, 12)
              ELSE c
  IN /\ Len(body) = 10
     /\ \A i \in 1..10 : body[i] \in Digits
     /\ body[1] \in {"6", "7", "8", "9"}
     /\ Cardinality({body[i] : i \in 1..10}) > 1

\* C19: _validate_indian_phone_number accepts exactly the numbers that are,
\* after removing spaces, hyphens, parentheses and an optional +91, ten digits
\* beginning with 6, 7, 8 or 9 and not all identical, with and without the
\* country code.
C19_PhoneAcceptedIffValid ==
  phoneCheck.code # "none" =>
    (phoneCheck.code = "valid" <=> IntendedPhone(phoneCheck.input))

RECURSIVE SumTokens(_, _, _)
SumTokens(rows, ids, s) ==
  IF ids = {} THEN 0
  ELSE LET id == CHOOSE x \in ids : TRUE
       IN (IF rows[id].chat_session = s THEN rows[id].total_tokens ELSE 0)
            + SumTokens(rows, ids \ {id}, s)

\* C20: whenever no track_usage call is in progress, total_tokens_used of each
\* session is the sum of total_tokens over the TokenUsage rows track_usage
\* recorded for it.
C20_SessionTotalIsSumOfUsage ==
  (\A p \in Procs : treq[p].pc = "idle") =>
    \A s \in DOMAIN sessions :
      sessions[s].total_tokens_used = SumTokens(usage, DOMAIN usage, s)

\* C21: every stored document whose processing_status is completed has a
\* vector_collection_name, a non-empty vector_store_ids list, and every id of
\* that list is the id of an entry of the vector store.
C21_CompletedHasEmbeddings ==
  \A d \in DOMAIN docs :
    docs[d].processing_status = "completed" =>
      /\ docs[d].vector_collection_name # 0
      /\ docs[d].vector_store_ids # {}
      /\ docs[d].vector_store_ids \subseteq {e.id : e \in store}

\* C22: for every model name and all non-negative token counts without
\* reasoning tokens, TokenUsage.calculate_cost and
\* TokenUsageService.calculate_cost return the same prompt_cost,
\* completion_cost and total_cost, and each total_cost is the sum of the
\* prompt_cost and the completion_cost.
C22_CalculatorsAgree ==
  costs.model_name # "" =>
    /\ costs.of_model = costs.of_service
    /\ costs.of_model.total_cost =
         costs.of_model.prompt_cost + costs.of_model.completion_cost
    /\ costs.of_service.total_cost =
         costs.of_service.prompt_cost + costs.of_service.completion_cost
====
